---- MODULE Spec2Model ----
(***************************************************************************)
(* Model of the ledger and voucher stores of src/index.tsx (AccountingApp) *)
(* and of the Tally export built from them.                                *)
(*                                                                         *)
(* A ledger is modelled by the fields id, name, group and openingBalance;  *)
(* gstNumber and contact are display-only and are left out.  A voucher     *)
(* keeps all its fields.  Text that the code takes apart (the amount typed *)
(* into the form, the date) is a sequence of one-character strings; text   *)
(* that the code only copies or compares is a string.                      *)
(***************************************************************************)
EXTENDS Integers, Sequences, FiniteSets, TLC

VARIABLES
    ledgers,      \* data.ledgers
    vouchers,     \* data.vouchers
    nGenerated,   \* number of generateId() calls made so far
    xml,          \* the document built by the exportToTally call that just ran
    report,       \* what ReportView shows, while it is the view that just rendered
    dashboard,    \* what DashboardView shows, while it is the view that just rendered
    lastOp,       \* the handler that ran last
    nac_data,     \* localStorage item nac_data: <<>> or the one saved copy
    effects,      \* the effects of AccountingApp still to run after the last render
    queued,       \* the setData update the load effect has queued: <<>> or one
    nac_license,  \* localStorage item nac_license: <<>> or the one saved license
    storedLicense,\* LicenseGate state storedLicense: <<>> (null) or one license
    isUnlocked,   \* Root state isUnlocked
    gateEffect,   \* LicenseGate's mount effect is still to run
    licenseKey,   \* LicenseGate state licenseKey, as licenseKey.split('-') has it
    now           \* the clock, in months

\* the state of LicenseGate and Root, and the clock
gate == <<nac_license, storedLicense, isUnlocked, gateEffect, licenseKey, now>>

\* the effects and updates of AccountingApp that are pending
mount == <<effects, queued>>

vars == <<ledgers, vouchers, nGenerated, xml, report, dashboard, lastOp,
          nac_data, mount, gate>>

----------------------------------------------------------------------------
(* Bounds *)

\* generateId() is called at most this many times in a behaviour
MaxGenerated == 1

\* longest journal the export and the reports are applied to in SpecExport
\* and SpecReport
MaxJournal == 2

\* longest registry the reports are applied to in SpecReport
MaxRegistry == 2

----------------------------------------------------------------------------
(* JavaScript values *)

\* the value of an absent optional field, and of `find(...)?.name` on a miss
undefined == "<undefined>"

\* truthiness of a string-or-undefined value, as used by `a || b` and `if (a)`
Truthy(s) == s # undefined /\ s # ""

\* `a ?? b`: only undefined falls back
OrElse_Nullish(a, b) == IF a # undefined THEN a ELSE b

\* `a || b`
OrElse(a, b) == IF Truthy(a) THEN a ELSE b

\* truthiness of a text held as a sequence of characters
TruthyText(t) == Len(t) > 0

DigitValue(c) ==
    CASE c = "0" -> 0 [] c = "1" -> 1 [] c = "2" -> 2 [] c = "3" -> 3
      [] c = "4" -> 4 [] c = "5" -> 5 [] c = "6" -> 6 [] c = "7" -> 7
      [] c = "8" -> 8 [] c = "9" -> 9

RECURSIVE ParseDigits(_)
ParseDigits(t) ==
    IF Len(t) = 0 THEN 0
    ELSE 10 * ParseDigits(SubSeq(t, 1, Len(t) - 1)) + DigitValue(t[Len(t)])

\* Number(text) for the decimal integer texts a number input yields
Number(t) ==
    IF Len(t) = 0 THEN 0
    ELSE IF t[1] = "-" THEN 0 - ParseDigits(Tail(t))
    ELSE ParseDigits(t)

\* Math.abs
Abs(n) == IF n < 0 THEN 0 - n ELSE n

----------------------------------------------------------------------------
(* Types and initial data *)

LedgerGroup == {"Asset", "Liability", "Income", "Expense", "Bank", "Cash",
                "Sundry Debtor", "Sundry Creditor"}

VoucherType == {"Sales", "Purchase", "Receipt", "Payment", "Journal", "Contra"}

Ledger(id, name, group, openingBalance) ==
    [id |-> id, name |-> name, group |-> group, openingBalance |-> openingBalance]

Voucher(id, date, type, ledgerId, amount, narration, invoiceNumber) ==
    [id |-> id, date |-> date, type |-> type, ledgerId |-> ledgerId,
     amount |-> amount, narration |-> narration, invoiceNumber |-> invoiceNumber]

\* "YYYY-MM-DD" as characters
Date(y, m, d) == y \o <<"-">> \o m \o <<"-">> \o d

Y2024 == <<"2", "0", "2", "4">>
M04 == <<"0", "4">>

INITIAL_DATA ==
    [ledgers |-> <<
        Ledger("1", "Cash Account", "Cash", 50000),
        Ledger("2", "HDFC Bank", "Bank", 150000),
        Ledger("3", "Sales Account", "Income", 0),
        Ledger("4", "Purchase Account", "Expense", 0),
        Ledger("5", "Ramesh Traders", "Sundry Debtor", 0),
        Ledger("6", "Tech Solutions Ltd", "Sundry Creditor", 0),
        Ledger("7", "Office Rent", "Expense", 0),
        Ledger("8", "Electricity Bill", "Expense", 0) >>,
     vouchers |-> <<
        Voucher("V001", Date(Y2024, M04, <<"0", "1">>), "Receipt", "1", 50000,
                "Capital Introduction", undefined),
        Voucher("V002", Date(Y2024, M04, <<"0", "2">>), "Purchase", "6", 25000,
                "Purchased computer parts", "INV-99"),
        Voucher("V003", Date(Y2024, M04, <<"0", "5">>), "Sales", "5", 45000,
                "Sold 5 Laptops", "NAC-001"),
        Voucher("V004", Date(Y2024, M04, <<"0", "6">>), "Payment", "7", 12000,
                "Office Rent Paid via Cash", undefined) >>]

\* Indices of INITIAL_DATA an earlier session kept: that session deleted the
\* other ledgers and vouchers, and every change was saved to nac_data.
KeptLedgers == {5, 6}
KeptVouchers == {2, 3}

RECURSIVE KeepAt(_, _, _)
KeepAt(s, keep, i) ==
    IF i > Len(s) THEN <<>>
    ELSE (IF i \in keep THEN <<s[i]>> ELSE <<>>) \o KeepAt(s, keep, i + 1)

\* localStorage nac_data at session start
savedData ==
    [ledgers |-> KeepAt(INITIAL_DATA.ledgers, KeptLedgers, 1),
     vouchers |-> KeepAt(INITIAL_DATA.vouchers, KeptVouchers, 1)]

----------------------------------------------------------------------------
(* Store actions of AccountingApp *)

\* addLedger refusing a name the registry already has
addLedger_UniqueName(ls, ledger) ==
    IF \E i \in DOMAIN ls : ls[i].name = ledger.name THEN ls ELSE Append(ls, ledger)

addLedger(ls, ledger) == Append(ls, ledger)

\* deleteLedger as splice(findIndex(...), 1): removes the first match, and
\* the last entry when there is none (index -1)
deleteLedger_Splice(ls, id) ==
    LET at == IF \E i \in DOMAIN ls : ls[i].id = id
              THEN CHOOSE i \in DOMAIN ls :
                       ls[i].id = id /\ \A j \in 1..(i - 1) : ls[j].id # id
              ELSE Len(ls)
    IN SubSeq(ls, 1, at - 1) \o SubSeq(ls, at + 1, Len(ls))

deleteLedger(ls, id) == LET Keep(l) == l.id # id IN SelectSeq(ls, Keep)

addVoucher(vs, voucher) == Append(vs, voucher)

deleteVoucher(vs, id) == LET Keep(v) == v.id # id IN SelectSeq(vs, Keep)

\* data.ledgers.find(l => l.id === id)?.name
RECURSIVE FindLedgerName(_, _)
FindLedgerName(ls, id) ==
    IF ls = <<>> THEN undefined
    ELSE IF Head(ls).id = id THEN Head(ls).name
    ELSE FindLedgerName(Tail(ls), id)

----------------------------------------------------------------------------
(* exportToTally: the document is the sequence of lines appended to `xml`. *)
(* A line is an opening tag, a closing tag or an element with its content: *)
(* val for copied text, num for an interpolated number, txt for text held  *)
(* as characters.                                                          *)

Line(k, tag, val, num, txt) == [k |-> k, tag |-> tag, val |-> val, num |-> num, txt |-> txt]

Open(tag) == Line("open", tag, "", 0, <<>>)

Close(tag) == Line("close", tag, "", 0, <<>>)

Elem(tag, val) == Line("elem", tag, val, 0, <<>>)

NumElem(tag, num) == Line("elem", tag, "", num, <<>>)

TxtElem(tag, txt) == Line("elem", tag, "", 0, txt)

\* <VOUCHER VCHTYPE="${v.type}" ACTION="Create">
VoucherOpen(type) == Line("open", "VOUCHER", type, 0, <<>>)

XmlHeader ==
    << Open("ENVELOPE"), Open("HEADER"), Elem("TALLYREQUEST", "Import Data"),
       Close("HEADER"), Open("BODY"), Open("IMPORTDATA"), Open("REQUESTDESC"),
       Elem("REPORTNAME", "Vouchers"), Close("REQUESTDESC"), Open("REQUESTDATA"),
       Open("TALLYMESSAGE") >>

XmlFooter ==
    << Close("TALLYMESSAGE"), Close("REQUESTDATA"), Close("IMPORTDATA"),
       Close("BODY"), Close("ENVELOPE") >>

\* v.date.replace(/-/g, '')
DateStr(date) == LET NotDash(c) == c # "-" IN SelectSeq(date, NotDash)

\* ['Sales', 'Payment'].includes(v.type)
IsSalesOrPayment(type) == type \in {"Sales", "Payment"}

\* PartyName without the `|| 'Unknown Ledger'` fallback
PartyName_NoFallback(ls, v) == FindLedgerName(ls, v.ledgerId)

PartyName(ls, v) == OrElse(FindLedgerName(ls, v.ledgerId), "Unknown Ledger")

\* PartyPositive with the two answers swapped
PartyPositive_Swapped(v) == IF IsSalesOrPayment(v.type) THEN "Yes" ELSE "No"

PartyPositive(v) == IF IsSalesOrPayment(v.type) THEN "No" ELSE "Yes"

\* PartyAmount testing for Sales only
PartyAmount_SalesOnly(v) == IF v.type = "Sales" THEN v.amount ELSE 0 - v.amount

PartyAmount(v) == IF IsSalesOrPayment(v.type) THEN v.amount ELSE 0 - v.amount

\* ContraLedger without the Purchase case
ContraLedger_NoPurchase(v) ==
    IF v.type = "Sales" THEN "Sales Account" ELSE "Cash Account"

ContraLedger(v) ==
    IF v.type = "Purchase" THEN "Purchase Account"
    ELSE IF v.type = "Sales" THEN "Sales Account"
    ELSE "Cash Account"

ContraPositive(v) == IF IsSalesOrPayment(v.type) THEN "Yes" ELSE "No"

\* ContraAmount with the sign not inverted
ContraAmount_NotNegated(v) == IF IsSalesOrPayment(v.type) THEN v.amount ELSE 0 - v.amount

ContraAmount(v) == IF IsSalesOrPayment(v.type) THEN 0 - v.amount ELSE v.amount

\* the lines one iteration of data.vouchers.forEach appends
VoucherBlock(ls, v) ==
    << VoucherOpen(v.type),
       TxtElem("DATE", DateStr(v.date)),
       Elem("NARRATION", v.narration),
       Elem("VOUCHERNUMBER", OrElse(v.invoiceNumber, v.id)),
       Elem("PARTYLEDGERNAME", PartyName(ls, v)),
       Open("ALLLEDGERENTRIES.LIST"),
       Elem("LEDGERNAME", PartyName(ls, v)),
       Elem("ISDEEMEDPOSITIVE", PartyPositive(v)),
       NumElem("AMOUNT", PartyAmount(v)),
       Close("ALLLEDGERENTRIES.LIST"),
       Open("ALLLEDGERENTRIES.LIST"),
       Elem("LEDGERNAME", ContraLedger(v)),
       Elem("ISDEEMEDPOSITIVE", ContraPositive(v)),
       NumElem("AMOUNT", ContraAmount(v)),
       Close("ALLLEDGERENTRIES.LIST"),
       Close("VOUCHER") >>

\* VoucherBlocks leaving out the vouchers whose ledger is not found
RECURSIVE VoucherBlocks_SkipDangling(_, _)
VoucherBlocks_SkipDangling(ls, vs) ==
    IF vs = <<>> THEN <<>>
    ELSE (IF FindLedgerName(ls, Head(vs).ledgerId) = undefined THEN <<>>
          ELSE VoucherBlock(ls, Head(vs)))
         \o VoucherBlocks_SkipDangling(ls, Tail(vs))

RECURSIVE VoucherBlocks(_, _)
VoucherBlocks(ls, vs) ==
    IF vs = <<>> THEN <<>>
    ELSE VoucherBlock(ls, Head(vs)) \o VoucherBlocks(ls, Tail(vs))

exportToTally(ls, vs) == XmlHeader \o VoucherBlocks(ls, vs) \o XmlFooter

----------------------------------------------------------------------------
(* What the views show of a voucher's party *)

\* what React renders for {value}: nothing for undefined
RenderText(x) == IF x = undefined THEN "" ELSE x

Reverse(s) == [i \in 1..Len(s) |-> s[Len(s) + 1 - i]]

\* data.vouchers.slice(-5).reverse()
RecentVouchers(vs) ==
    Reverse(SubSeq(vs, IF Len(vs) > 5 THEN Len(vs) - 4 ELSE 1, Len(vs)))

\* the Particulars cell of a dashboard row
DashboardParty(ls, v) == RenderText(FindLedgerName(ls, v.ledgerId))

\* DayBook listing the newest voucher first, as the dashboard does
DayBook_NewestFirst(vs, date) ==
    LET OnDate(v) == v.date = date IN Reverse(SelectSeq(vs, OnDate))

\* data.vouchers.filter(v => v.date === date)
DayBook(vs, date) == LET OnDate(v) == v.date = date IN SelectSeq(vs, OnDate)

\* the Party cell of a day-book row
DayBookParty(ls, v) == RenderText(FindLedgerName(ls, v.ledgerId))

----------------------------------------------------------------------------
(* ReportView: trial balance and profit and loss *)

\* a money cell: formatCurrency(n), or the text '-'
Currency(n) == [dash |-> FALSE, num |-> n]

Dash == [dash |-> TRUE, num |-> 0]

\* vs.reduce((s, v) => s + v.amount, 0)
RECURSIVE SumAmounts(_)
SumAmounts(vs) ==
    IF vs = <<>> THEN 0 ELSE Head(vs).amount + SumAmounts(Tail(vs))

\* data.vouchers.filter(v => v.type === type)
OfType(vs, type) == LET Is(v) == v.type = type IN SelectSeq(vs, Is)

\* Debits counting the vouchers of every ledger
Debits_AnyLedger(l, vs) ==
    LET Is(v) == v.type \in {"Sales", "Receipt"}
    IN SumAmounts(SelectSeq(vs, Is))

Debits(l, vs) ==
    LET Is(v) == v.ledgerId = l.id /\ v.type \in {"Sales", "Receipt"}
    IN SumAmounts(SelectSeq(vs, Is))

\* Credits counting Purchase vouchers only
Credits_PurchaseOnly(l, vs) ==
    LET Is(v) == v.ledgerId = l.id /\ v.type = "Purchase"
    IN SumAmounts(SelectSeq(vs, Is))

Credits(l, vs) ==
    LET Is(v) == v.ledgerId = l.id /\ v.type \in {"Purchase", "Payment"}
    IN SumAmounts(SelectSeq(vs, Is))

\* Net leaving the opening balance out
Net_NoOpening(l, vs) == Debits(l, vs) - Credits(l, vs)

Net(l, vs) == l.openingBalance + Debits(l, vs) - Credits(l, vs)

\* computed by the code and not used
IsCreditNature(l) == l.group \in {"Liability", "Income", "Sundry Creditor"}

\* TrialBalanceRow without the `net === 0` return
TrialBalanceRow_ShowZero(l, vs) ==
    << [key |-> l.id, name |-> l.name, group |-> l.group,
        debit |-> IF Net(l, vs) > 0 THEN Currency(Net(l, vs)) ELSE Dash,
        credit |-> IF Net(l, vs) < 0 THEN Currency(Abs(Net(l, vs))) ELSE Dash] >>

\* TrialBalanceRow taking the side from isCreditNature
TrialBalanceRow_ByGroup(l, vs) ==
    IF Net(l, vs) = 0 THEN <<>>
    ELSE << [key |-> l.id, name |-> l.name, group |-> l.group,
             debit |-> IF ~IsCreditNature(l) THEN Currency(Abs(Net(l, vs))) ELSE Dash,
             credit |-> IF IsCreditNature(l) THEN Currency(Abs(Net(l, vs))) ELSE Dash] >>

\* what the map callback returns for ledger l: no row (null) or one row
TrialBalanceRow(l, vs) ==
    IF Net(l, vs) = 0 THEN <<>>
    ELSE << [key |-> l.id, name |-> l.name, group |-> l.group,
             debit |-> IF Net(l, vs) > 0 THEN Currency(Net(l, vs)) ELSE Dash,
             credit |-> IF Net(l, vs) < 0 THEN Currency(Abs(Net(l, vs))) ELSE Dash] >>

\* data.ledgers.map(l => ...)
TrialBalance(ls, vs) == [i \in DOMAIN ls |-> TrialBalanceRow(ls[i], vs)]

\* ProfitAndLoss counting receipts as revenue
ProfitAndLoss_ReceiptsAsRevenue(vs) ==
    [revenue |-> Currency(SumAmounts(OfType(vs, "Sales")) + SumAmounts(OfType(vs, "Receipt"))),
     cost |-> Currency(SumAmounts(OfType(vs, "Purchase"))),
     expenses |-> Currency(SumAmounts(OfType(vs, "Payment"))),
     netProfit |-> Currency(10000)]

\* ProfitAndLoss deriving the net profit from the three aggregates
ProfitAndLoss_DerivedNet(vs) ==
    [revenue |-> Currency(SumAmounts(OfType(vs, "Sales"))),
     cost |-> Currency(SumAmounts(OfType(vs, "Purchase"))),
     expenses |-> Currency(SumAmounts(OfType(vs, "Payment"))),
     netProfit |-> Currency(SumAmounts(OfType(vs, "Sales"))
                            - SumAmounts(OfType(vs, "Purchase"))
                            - SumAmounts(OfType(vs, "Payment")))]

ProfitAndLoss(vs) ==
    [revenue |-> Currency(SumAmounts(OfType(vs, "Sales"))),
     cost |-> Currency(SumAmounts(OfType(vs, "Purchase"))),
     expenses |-> Currency(SumAmounts(OfType(vs, "Payment"))),
     netProfit |-> Currency(10000)]

ReportView(ls, vs) == [trial |-> TrialBalance(ls, vs), pl |-> ProfitAndLoss(vs)]

\* no report on screen
NoReport ==
    [trial |-> <<>>,
     pl |-> [revenue |-> Dash, cost |-> Dash, expenses |-> Dash, netProfit |-> Dash]]

----------------------------------------------------------------------------
(* DashboardView: totals and cash in hand *)

\* CashOpening adding up the opening balances of all Cash ledgers
RECURSIVE CashOpening_AllCash(_)
CashOpening_AllCash(ls) ==
    IF ls = <<>> THEN 0
    ELSE (IF Head(ls).group = "Cash" THEN Head(ls).openingBalance ELSE 0)
         + CashOpening_AllCash(Tail(ls))

\* (data.ledgers.find(l => l.group === 'Cash')?.openingBalance || 0)
RECURSIVE CashOpening(_)
CashOpening(ls) ==
    IF ls = <<>> THEN 0
    ELSE IF Head(ls).group = "Cash"
         THEN (IF Head(ls).openingBalance # 0 THEN Head(ls).openingBalance ELSE 0)
         ELSE CashOpening(Tail(ls))

CashBalance(ls, vs) ==
    CashOpening(ls) + SumAmounts(OfType(vs, "Receipt")) - SumAmounts(OfType(vs, "Payment"))

DashboardView(ls, vs) ==
    [totalSales |-> Currency(SumAmounts(OfType(vs, "Sales"))),
     totalPurchase |-> Currency(SumAmounts(OfType(vs, "Purchase"))),
     cashBalance |-> Currency(CashBalance(ls, vs))]

\* no dashboard on screen
NoDashboard == [totalSales |-> Dash, totalPurchase |-> Dash, cashBalance |-> Dash]

----------------------------------------------------------------------------
(* localStorage and the license *)

\* JSON.stringify(data) as stored in nac_data, read back by JSON.parse
Save(ls, vs) == << [ledgers |-> ls, vouchers |-> vs] >>

\* AccountingApp after its mount effects have run: nothing pending and the
\* saved copy is the data
AppIdle ==
    /\ nac_data = Save(ledgers, vouchers)
    /\ effects = <<>>
    /\ queued = <<>>

\* a license key as licenseKey.split('-') has it
DemoKey == <<"NAC", "DEMO", "2025", "TEST">>

License(key, expiryDate) == [key |-> key, expiryDate |-> expiryDate]

\* LicenseGate and Root once the demo key has been activated at month 0
Licensed ==
    /\ nac_license = << License(DemoKey, 12) >>
    /\ storedLicense = << License(DemoKey, 12) >>
    /\ isUnlocked = TRUE
    /\ gateEffect = FALSE
    /\ licenseKey = DemoKey
    /\ now = 0

\* LicenseGate renders its children and Root makes AccountingApp their content
AppShown == storedLicense # <<>> /\ isUnlocked

----------------------------------------------------------------------------
(* What the user can enter *)

\* values generateId() returns; nothing in it excludes a value returned before
IdPool == {"K3F9Q2ZP1", "7XW0B5MTA"}

\* Ledger form: name, group and opening balance
LedgerNames == {"", "Ramesh Traders"}

LedgerGroupChoices == {"Sundry Debtor", "Cash"}

OpeningBalances == {0, 0 - 5000}

\* Voucher form: the four type buttons, the amount and reference typed, the
\* date the form starts with
\* a type button for every voucher type
FormTypes_EveryType == VoucherType

FormTypes == {"Sales", "Purchase", "Receipt", "Payment"}

AmountTexts == {<<>>, <<"2", "5", "0">>, <<"-", "1", "0", "0">>}

InvoiceNos == {"", "INV-7"}

Today == Date(Y2024, M04, <<"0", "5">>)

\* LedgerOptions built once from the initial ledgers
LedgerOptions_Initial(ls) ==
    {""} \cup {INITIAL_DATA.ledgers[i].id : i \in DOMAIN INITIAL_DATA.ledgers}

\* the options of the Party Account select: "Select Ledger" and every ledger
LedgerOptions(ls) == {""} \cup {ls[i].id : i \in DOMAIN ls}

----------------------------------------------------------------------------
(* Handlers *)

\* handleSubmit without the `if (newLedger.name)` test
handleSubmit_NoNameCheck(name, group, openingBalance) ==
    /\ nGenerated < MaxGenerated
    /\ nGenerated' = nGenerated + 1
    /\ \E id \in IdPool :
         ledgers' = addLedger(ledgers,
            Ledger(id, name, group, IF openingBalance # 0 THEN openingBalance ELSE 0))
    /\ nac_data' = Save(ledgers', vouchers)
    /\ lastOp' = "handleSubmit"
    /\ xml' = <<>>
    /\ report' = NoReport
    /\ dashboard' = NoDashboard
    /\ UNCHANGED <<vouchers, mount, gate>>

\* LedgersView.handleSubmit with the form holding (name, group, openingBalance)
handleSubmit(name, group, openingBalance) ==
    /\ IF Truthy(name)
       THEN /\ nGenerated < MaxGenerated
            /\ nGenerated' = nGenerated + 1
            /\ \E id \in IdPool :
                 ledgers' = addLedger(ledgers,
                    Ledger(id, name, group, IF openingBalance # 0 THEN openingBalance ELSE 0))
            /\ nac_data' = Save(ledgers', vouchers)
       ELSE UNCHANGED <<ledgers, nGenerated, nac_data>>
    /\ lastOp' = "handleSubmit"
    /\ xml' = <<>>
    /\ report' = NoReport
    /\ dashboard' = NoDashboard
    /\ UNCHANGED <<vouchers, mount, gate>>

\* handleSave testing the amount only
handleSave_NoLedgerCheck(type, ledgerId, amount, narration, date, invoiceNo) ==
    /\ IF TruthyText(amount)
       THEN /\ nGenerated < MaxGenerated
            /\ nGenerated' = nGenerated + 1
            /\ \E id \in IdPool :
                 vouchers' = addVoucher(vouchers,
                    Voucher(id, date, type, ledgerId, Number(amount), narration, invoiceNo))
            /\ nac_data' = Save(ledgers, vouchers')
       ELSE UNCHANGED <<vouchers, nGenerated, nac_data>>
    /\ lastOp' = "handleSave"
    /\ xml' = <<>>
    /\ report' = NoReport
    /\ dashboard' = NoDashboard
    /\ UNCHANGED <<ledgers, mount, gate>>

\* VoucherView.handleSave with the form holding the given values
handleSave(type, ledgerId, amount, narration, date, invoiceNo) ==
    /\ IF Truthy(ledgerId) /\ TruthyText(amount)
       THEN /\ nGenerated < MaxGenerated
            /\ nGenerated' = nGenerated + 1
            /\ \E id \in IdPool :
                 vouchers' = addVoucher(vouchers,
                    Voucher(id, date, type, ledgerId, Number(amount), narration, invoiceNo))
            /\ nac_data' = Save(ledgers, vouchers')
       ELSE UNCHANGED <<vouchers, nGenerated, nac_data>>
    /\ lastOp' = "handleSave"
    /\ xml' = <<>>
    /\ report' = NoReport
    /\ dashboard' = NoDashboard
    /\ UNCHANGED <<ledgers, mount, gate>>

\* DeleteLedger also deleting the vouchers of the ledger
DeleteLedger_Cascade(id) ==
    /\ ledgers' = deleteLedger(ledgers, id)
    /\ vouchers' = LET Keep(v) == v.ledgerId # id IN SelectSeq(vouchers, Keep)
    /\ nac_data' = Save(ledgers', vouchers')
    /\ lastOp' = "deleteLedger"
    /\ xml' = <<>>
    /\ report' = NoReport
    /\ dashboard' = NoDashboard
    /\ UNCHANGED <<nGenerated, mount, gate>>

\* the delete button of a ledger row
DeleteLedger(id) ==
    /\ ledgers' = deleteLedger(ledgers, id)
    /\ nac_data' = Save(ledgers', vouchers)
    /\ lastOp' = "deleteLedger"
    /\ xml' = <<>>
    /\ report' = NoReport
    /\ dashboard' = NoDashboard
    /\ UNCHANGED <<vouchers, nGenerated, mount, gate>>

\* the delete button of a day-book row
DeleteVoucher(id) ==
    /\ vouchers' = deleteVoucher(vouchers, id)
    /\ nac_data' = Save(ledgers, vouchers')
    /\ lastOp' = "deleteVoucher"
    /\ xml' = <<>>
    /\ report' = NoReport
    /\ dashboard' = NoDashboard
    /\ UNCHANGED <<ledgers, nGenerated, mount, gate>>

\* the Export to Tally XML button
ExportToTally ==
    /\ xml' = exportToTally(ledgers, vouchers)
    /\ report' = NoReport
    /\ dashboard' = NoDashboard
    /\ lastOp' = "exportToTally"
    /\ UNCHANGED <<ledgers, vouchers, nGenerated, nac_data, mount, gate>>

\* the Reports entry of the sidebar: ReportView renders from the two stores
RenderReport ==
    /\ report' = ReportView(ledgers, vouchers)
    /\ dashboard' = NoDashboard
    /\ lastOp' = "ReportView"
    /\ xml' = <<>>
    /\ UNCHANGED <<ledgers, vouchers, nGenerated, nac_data, mount, gate>>

\* RenderDashboard with the recent list reversed in place, not on a slice
RenderDashboard_ReverseInPlace ==
    /\ vouchers' = Reverse(vouchers)
    /\ dashboard' = DashboardView(ledgers, vouchers')
    /\ report' = NoReport
    /\ lastOp' = "DashboardView"
    /\ xml' = <<>>
    /\ UNCHANGED <<ledgers, nGenerated, nac_data, mount, gate>>

\* the Dashboard entry of the sidebar: DashboardView renders from the two stores
RenderDashboard ==
    /\ dashboard' = DashboardView(ledgers, vouchers)
    /\ report' = NoReport
    /\ lastOp' = "DashboardView"
    /\ xml' = <<>>
    /\ UNCHANGED <<ledgers, vouchers, nGenerated, nac_data, mount, gate>>

SubmitLedgerForm ==
    \E name \in LedgerNames, group \in LedgerGroupChoices,
       openingBalance \in OpeningBalances :
        handleSubmit(name, group, openingBalance)

\* the Save Voucher button.  The type and the reference are left at their
\* initial values when no ledger or no amount is entered: handleSave reads
\* them only after that test.
SaveVoucherForm ==
    \E ledgerId \in LedgerOptions(ledgers), amount \in AmountTexts :
        IF Truthy(ledgerId) /\ TruthyText(amount)
        THEN \E type \in FormTypes, invoiceNo \in InvoiceNos :
                 handleSave(type, ledgerId, amount, "", Today, invoiceNo)
        ELSE handleSave("Sales", ledgerId, amount, "", Today, "")

ClickDeleteLedger == \E i \in DOMAIN ledgers : DeleteLedger(ledgers[i].id)

ClickDeleteVoucher == \E i \in DOMAIN vouchers : DeleteVoucher(vouchers[i].id)

Init ==
    /\ ledgers = savedData.ledgers
    /\ vouchers = savedData.vouchers
    /\ nGenerated = 0
    /\ xml = <<>>
    /\ report = NoReport
    /\ dashboard = NoDashboard
    /\ lastOp = "load"
    /\ AppIdle
    /\ Licensed

Next ==
    \/ SubmitLedgerForm
    \/ SaveVoucherForm
    \/ ClickDeleteLedger
    \/ ClickDeleteVoucher
    \/ ExportToTally
    \/ RenderReport

Spec == Init /\ [][Next]_vars

----------------------------------------------------------------------------
(* The export as a function of the two stores: any registry and journal of *)
(* the pools below, then exportToTally.                                    *)

ExportLedgerIds == {"5", "6"}

\* amount and reference of a voucher: V003's, and a negative amount without
\* a reference
ExportEntries ==
    { [amount |-> 45000, invoiceNumber |-> "NAC-001"],
      [amount |-> 0 - 100, invoiceNumber |-> undefined] }

ExportVouchers ==
    { Voucher("V003", Today, type, ledgerId, e.amount, "Sold 5 Laptops", e.invoiceNumber) :
        type \in VoucherType, ledgerId \in ExportLedgerIds, e \in ExportEntries }

ExportJournals == UNION { [1..n -> ExportVouchers] : n \in 0..MaxJournal }

\* the initial registry, the registry after ledger "5" and others were
\* deleted, and the empty registry
ExportRegistries ==
    { INITIAL_DATA.ledgers, deleteLedger(savedData.ledgers, "5"), <<>> }

InitExport ==
    /\ ledgers \in ExportRegistries
    /\ vouchers \in ExportJournals
    /\ nGenerated = 0
    /\ xml = <<>>
    /\ report = NoReport
    /\ dashboard = NoDashboard
    /\ lastOp = "load"
    /\ AppIdle
    /\ Licensed

NextExport == ExportToTally

SpecExport == InitExport /\ [][NextExport]_vars

----------------------------------------------------------------------------
(* The reports as a function of the two stores: any registry and journal   *)
(* of the pools below, or the worked example, then ReportView.             *)

\* ledger "5" under a debit and a credit group with a zero, a positive and
\* a negative opening balance, and a second ledger "6" of the same name
ReportLedgers ==
    { Ledger("5", "Ramesh Traders", group, openingBalance) :
        group \in {"Sundry Debtor", "Sundry Creditor"},
        openingBalance \in {0, 50000, 0 - 45000} }
    \cup { Ledger("6", "Ramesh Traders", "Sundry Debtor", 0) }

\* the amount of the initial voucher of each type; 5000 for the types the
\* initial data has no voucher of
ReportAmount(type) ==
    CASE type = "Receipt" -> 50000 [] type = "Purchase" -> 25000
      [] type = "Sales" -> 45000 [] type = "Payment" -> 12000
      [] OTHER -> 5000

\* a voucher of every type on ledger "5", and a sale on ledger "6"
ReportVouchers ==
    { Voucher("V003", Today, type, "5", ReportAmount(type), "", undefined) :
        type \in VoucherType }
    \cup { Voucher("V005", Today, "Sales", "6", ReportAmount("Sales"), "", undefined) }

ReportRegistries == UNION { [1..n -> ReportLedgers] : n \in 0..MaxRegistry }

ReportJournals == UNION { [1..n -> ReportVouchers] : n \in 0..MaxJournal }

\* the initial data after ledgers 2, 4, 5, 7, 8 and vouchers V001, V004
\* were deleted
ExampleRegistry == KeepAt(INITIAL_DATA.ledgers, {1, 3, 6}, 1)

ExampleJournal == KeepAt(INITIAL_DATA.vouchers, {2, 3}, 1)

InitReport ==
    /\ \/ ledgers \in ReportRegistries /\ vouchers \in ReportJournals
       \/ ledgers = ExampleRegistry /\ vouchers = ExampleJournal
    /\ nGenerated = 0
    /\ xml = <<>>
    /\ report = NoReport
    /\ dashboard = NoDashboard
    /\ lastOp = "load"
    /\ AppIdle
    /\ Licensed

NextReport == RenderReport

SpecReport == InitReport /\ [][NextReport]_vars

----------------------------------------------------------------------------
(* The forms of a session that follows one in which a ledger and a voucher
   were added: localStorage nac_data holds them with the ids generateId gave *)

savedDataLater ==
    { [ledgers |-> addLedger(savedData.ledgers, Ledger(lid, "Ramesh Traders", group, 0)),
       vouchers |-> addVoucher(savedData.vouchers,
                       Voucher(vid, Today, "Receipt", "5", 250, "", ""))] :
        lid \in IdPool, vid \in IdPool, group \in LedgerGroupChoices }

InitIds ==
    /\ \E saved \in savedDataLater :
          ledgers = saved.ledgers /\ vouchers = saved.vouchers
    /\ nGenerated = 0
    /\ xml = <<>>
    /\ report = NoReport
    /\ dashboard = NoDashboard
    /\ lastOp = "load"
    /\ AppIdle
    /\ Licensed

NextIds ==
    \/ SubmitLedgerForm
    \/ SaveVoucherForm
    \/ ClickDeleteLedger
    \/ ClickDeleteVoucher

SpecIds == InitIds /\ [][NextIds]_vars

----------------------------------------------------------------------------
(* deleteLedger and deleteVoucher as functions of the store and the id: any *)
(* registry or journal of the report pools, and any id, held or not.        *)

DeleteLedgerIds == {"5", "6", "7"}

DeleteVoucherIds == {"V003", "V004", "V005"}

CallDeleteLedger == \E id \in DeleteLedgerIds : DeleteLedger(id)

CallDeleteVoucher == \E id \in DeleteVoucherIds : DeleteVoucher(id)

InitDelete ==
    /\ \/ ledgers \in ReportRegistries /\ vouchers = ExampleJournal
       \/ ledgers = ExampleRegistry /\ vouchers \in ReportJournals
    /\ nGenerated = 0
    /\ xml = <<>>
    /\ report = NoReport
    /\ dashboard = NoDashboard
    /\ lastOp = "load"
    /\ AppIdle
    /\ Licensed

NextDelete == CallDeleteLedger \/ CallDeleteVoucher

SpecDelete == InitDelete /\ [][NextDelete]_vars

----------------------------------------------------------------------------
(* A session of AccountingApp from its first render: the load effect and    *)
(* the save effect run in the order the component declares them, the update *)
(* the load effect queued is rendered, and the save effect runs again.      *)

\* the effects of the first render with the save effect declared first
MountEffects_SaveFirst == <<"save", "load">>

\* the effects of the first render, in declaration order
MountEffects == <<"load", "save">>

\* nothing of the render is pending: the handlers of the views can run
Settled == effects = <<>> /\ queued = <<>>

\* the load effect: setData(JSON.parse(savedData)) when nac_data is there
LoadEffect ==
    /\ AppShown
    /\ effects # <<>>
    /\ Head(effects) = "load"
    /\ effects' = Tail(effects)
    /\ queued' = IF nac_data # <<>> THEN nac_data ELSE queued
    /\ lastOp' = "loadEffect"
    /\ UNCHANGED <<ledgers, vouchers, nGenerated, xml, report, dashboard, nac_data, gate>>

\* the save effect: it writes the data of the render it belongs to
SaveEffect ==
    /\ AppShown
    /\ effects # <<>>
    /\ Head(effects) = "save"
    /\ effects' = Tail(effects)
    /\ nac_data' = Save(ledgers, vouchers)
    /\ lastOp' = "saveEffect"
    /\ UNCHANGED <<ledgers, vouchers, nGenerated, xml, report, dashboard, queued, gate>>

\* the render for the queued setData: data changed, so the save effect is due
Rerender ==
    /\ AppShown
    /\ effects = <<>>
    /\ queued # <<>>
    /\ ledgers' = queued[1].ledgers
    /\ vouchers' = queued[1].vouchers
    /\ queued' = <<>>
    /\ effects' = <<"save">>
    /\ lastOp' = "render"
    /\ UNCHANGED <<nGenerated, xml, report, dashboard, nac_data, gate>>

\* the page loads: every component state is its useState value again, the
\* mount effect of LicenseGate is due, and so are those of AccountingApp
\* once it is rendered
PageLoad ==
    /\ storedLicense' = <<>>
    /\ isUnlocked' = FALSE
    /\ licenseKey' = <<"">>
    /\ gateEffect' = TRUE
    /\ ledgers' = INITIAL_DATA.ledgers
    /\ vouchers' = INITIAL_DATA.vouchers
    /\ effects' = MountEffects
    /\ queued' = <<>>
    /\ xml' = <<>>
    /\ report' = NoReport
    /\ dashboard' = NoDashboard

\* window.location.reload(): localStorage stays
Reload ==
    /\ ~gateEffect
    /\ Settled \/ ~AppShown
    /\ PageLoad
    /\ lastOp' = "reload"
    /\ UNCHANGED <<nGenerated, nac_data, nac_license, now>>

\* logout: the license is removed, then the page reloads
logout ==
    /\ AppShown
    /\ Settled
    /\ nac_license' = <<>>
    /\ PageLoad
    /\ lastOp' = "logout"
    /\ UNCHANGED <<nGenerated, nac_data, now>>

\* a year, and the month of a '1M' key, in months of the clock
YearLicense == 12
MonthTrial == 1

\* the mount effect of LicenseGate
GateMountEffect ==
    /\ gateEffect
    /\ gateEffect' = FALSE
    /\ IF nac_license # <<>>
       THEN IF now < nac_license[1].expiryDate
            THEN /\ storedLicense' = nac_license
                 /\ isUnlocked' = TRUE
                 /\ UNCHANGED nac_license
            ELSE /\ nac_license' = <<>>
                 /\ UNCHANGED <<storedLicense, isUnlocked>>
       ELSE UNCHANGED <<nac_license, storedLicense, isUnlocked>>
    /\ lastOp' = "gateEffect"
    /\ UNCHANGED <<ledgers, vouchers, nGenerated, xml, report, dashboard, nac_data, mount, licenseKey, now>>

\* licenseKey.startsWith('NAC-') holds of every key
StartsWithNAC_Any(key) == TRUE

\* licenseKey.startsWith('NAC-'), on the parts of the key
StartsWithNAC(key) == Len(key) >= 2 /\ key[1] = "NAC"

\* parts.includes(part)
Includes(parts, part) == \E i \in DOMAIN parts : parts[i] = part

\* localStorage.setItem('nac_license', ...); setStoredLicense(...); onUnlock()
Unlock(license) ==
    /\ nac_license' = << license >>
    /\ storedLicense' = << license >>
    /\ isUnlocked' = TRUE

handleActivate ==
    /\ IF licenseKey' = DemoKey
       THEN Unlock(License(licenseKey', now + YearLicense))
       ELSE IF ~StartsWithNAC(licenseKey')
            THEN UNCHANGED <<nac_license, storedLicense, isUnlocked>>
            ELSE Unlock(License(licenseKey', now + (IF Includes(licenseKey', "1M") THEN MonthTrial ELSE YearLicense)))
    /\ lastOp' = "handleActivate"
    /\ UNCHANGED <<ledgers, vouchers, nGenerated, xml, report, dashboard, nac_data, mount, gateEffect, now>>

\* the keys typed into the activation screen
LicenseKeys ==
    { DemoKey,
      <<"NAC", "1Y", "20240520", "ABCD">>,
      <<"NAC", "1M", "20240520", "ABCD">>,
      <<"TALLY", "1M", "20240520", "ABCD">>,
      <<"NAC">>,
      <<"">> }

\* the activation screen: a key is typed, then Activate License is clicked
Activate ==
    /\ ~gateEffect
    /\ storedLicense = <<>>
    /\ \E key \in LicenseKeys : licenseKey' = key
    /\ handleActivate

MaxClock == 13

\* a month passes
Tick ==
    /\ now < MaxClock
    /\ now' = now + 1
    /\ UNCHANGED <<ledgers, vouchers, nGenerated, xml, report, dashboard, lastOp, nac_data, mount, nac_license, storedLicense, isUnlocked, gateEffect, licenseKey>>

\* the first start of the program in a browser
InitLicense ==
    /\ nac_license = <<>>
    /\ storedLicense = <<>>
    /\ isUnlocked = FALSE
    /\ gateEffect = TRUE
    /\ licenseKey = <<"">>
    /\ now = 0
    /\ ledgers = INITIAL_DATA.ledgers
    /\ vouchers = INITIAL_DATA.vouchers
    /\ nac_data = <<>>
    /\ effects = MountEffects
    /\ queued = <<>>
    /\ nGenerated = 0
    /\ xml = <<>>
    /\ report = NoReport
    /\ dashboard = NoDashboard
    /\ lastOp = "load"

NextLicense ==
    \/ GateMountEffect
    \/ Activate
    \/ logout
    \/ Reload
    \/ Tick
    \/ LoadEffect
    \/ SaveEffect
    \/ Rerender

SpecLicense == InitLicense /\ [][NextLicense]_vars

\* the first session ever, or one that finds savedData
InitSession ==
    /\ ledgers = INITIAL_DATA.ledgers
    /\ vouchers = INITIAL_DATA.vouchers
    /\ nac_data \in {<<>>, Save(savedData.ledgers, savedData.vouchers)}
    /\ effects = MountEffects
    /\ queued = <<>>
    /\ nGenerated = 0
    /\ xml = <<>>
    /\ report = NoReport
    /\ dashboard = NoDashboard
    /\ lastOp = "load"
    /\ Licensed

NextSession ==
    \/ GateMountEffect
    \/ LoadEffect
    \/ SaveEffect
    \/ Rerender
    \/ Reload
    \/ Settled /\ SubmitLedgerForm
    \/ Settled /\ ClickDeleteVoucher

SpecSession == InitSession /\ [][NextSession]_vars

----------------------------------------------------------------------------
(* The views as functions of the two stores: any registry and journal of   *)
(* the pools below, then the export, the reports or the dashboard.         *)

\* the initial Cash and Bank ledgers, and a second Cash ledger added later
ViewLedgers ==
    { INITIAL_DATA.ledgers[1], INITIAL_DATA.ledgers[2],
      Ledger("K3F9Q2ZP1", "Petty Cash", "Cash", 0 - 5000) }

\* a receipt, a payment and a sale, each on ledger "1" and on the ledger
\* "7" that no registry of the pool holds
ViewVouchers ==
    { Voucher("V001", Today, type, ledgerId, ReportAmount(type), "", undefined) :
        type \in {"Receipt", "Payment", "Sales"}, ledgerId \in {"1", "7"} }

ViewRegistries == UNION { [1..n -> ViewLedgers] : n \in 0..MaxRegistry }

ViewJournals == UNION { [1..n -> ViewVouchers] : n \in 0..MaxJournal }

InitViews ==
    /\ ledgers \in ViewRegistries
    /\ vouchers \in ViewJournals
    /\ nGenerated = 0
    /\ xml = <<>>
    /\ report = NoReport
    /\ dashboard = NoDashboard
    /\ lastOp = "load"
    /\ AppIdle
    /\ Licensed

NextViews ==
    \/ ExportToTally
    \/ RenderReport
    \/ RenderDashboard

SpecViews == InitViews /\ [][NextViews]_vars

----------------------------------------------------------------------------
(* The voucher form and the export, from a journal that holds a voucher    *)
(* with a reference (V003) and one without (V004)                          *)

\* the initial data after an earlier session deleted V001, V002 and the
\* ledgers that savedData does not keep
InitReference ==
    /\ ledgers = savedData.ledgers
    /\ vouchers = KeepAt(INITIAL_DATA.vouchers, {3, 4}, 1)
    /\ nGenerated = 0
    /\ xml = <<>>
    /\ report = NoReport
    /\ dashboard = NoDashboard
    /\ lastOp = "load"
    /\ AppIdle
    /\ Licensed

NextReference == SaveVoucherForm \/ ExportToTally

SpecReference == InitReference /\ [][NextReference]_vars

----------------------------------------------------------------------------
(* Reading an exported document back *)

\* the positions of the lines of kind k and tag `tag`, in document order
Positions(doc, k, tag) ==
    LET Is(i) == doc[i].k = k /\ doc[i].tag = tag
    IN SelectSeq([i \in 1..Len(doc) |-> i], Is)

\* the content of the first element `tag` among the lines
RECURSIVE Field(_, _)
Field(lines, tag) ==
    IF Head(lines).k = "elem" /\ Head(lines).tag = tag THEN Head(lines)
    ELSE Field(Tail(lines), tag)

\* the documents whose VOUCHER tags open and close in turn
WellFormed(doc) ==
    LET o == Positions(doc, "open", "VOUCHER")
        c == Positions(doc, "close", "VOUCHER")
    IN /\ Len(o) = Len(c)
       /\ \A n \in DOMAIN o : o[n] < c[n]
       /\ \A n \in DOMAIN o : n < Len(o) => c[n] < o[n + 1]

NumBlocks(doc) == Len(Positions(doc, "open", "VOUCHER"))

\* the lines of the n-th voucher block, tags included
Block(doc, n) ==
    SubSeq(doc, Positions(doc, "open", "VOUCHER")[n], Positions(doc, "close", "VOUCHER")[n])

NumLegs(block) == Len(Positions(block, "open", "ALLLEDGERENTRIES.LIST"))

\* the lines inside the j-th ledger-entry block of a voucher block
Leg(block, j) ==
    SubSeq(block, Positions(block, "open", "ALLLEDGERENTRIES.LIST")[j] + 1,
                  Positions(block, "close", "ALLLEDGERENTRIES.LIST")[j] - 1)

\* the export has just run and `xml` is its document
Exported == lastOp = "exportToTally"

\* the ledgers of the registry with the given id
Matching(ls, id) == {i \in DOMAIN ls : ls[i].id = id}

First(S) == CHOOSE i \in S : \A j \in S : i <= j

\* the party name the export is to give voucher v
ExpectedPartyName(ls, v) ==
    IF Matching(ls, v.ledgerId) = {} THEN "Unknown Ledger"
    ELSE ls[First(Matching(ls, v.ledgerId))].name

\* the export has one block per voucher, so block n is read against voucher n
BlockPerVoucher == WellFormed(xml) /\ NumBlocks(xml) = Len(vouchers)

PartyLeg(n) == Leg(Block(xml, n), 1)

ContraLeg(n) == Leg(Block(xml, n), 2)

----------------------------------------------------------------------------
(* Claims *)

\* C1 (as claimed): a voucher-form save with a negative amount leaves the
\* journal as it was.
C1_NegativeAmountRejected ==
    [][\A type \in FormTypes, ledgerId \in LedgerOptions(ledgers),
          amount \in AmountTexts, invoiceNo \in InvoiceNos :
            (Number(amount) < 0 /\ handleSave(type, ledgerId, amount, "", Today, invoiceNo))
                => vouchers' = vouchers]_vars

\* C2 (as claimed): every voucher in the journal has amount >= 0.
C2_AmountsNonNegative == \A i \in DOMAIN vouchers : vouchers[i].amount >= 0

\* C3: deleteLedger leaves the journal unchanged, also when a voucher refers
\* to the deleted ledger.
C3_DeleteLedgerKeepsJournal == [][lastOp' = "deleteLedger" => vouchers' = vouchers]_vars

C3_Witness ==
    /\ lastOp = "deleteLedger"
    /\ vouchers = savedData.vouchers
    /\ \E i \in DOMAIN vouchers : Matching(ledgers, vouchers[i].ledgerId) = {}

\* C4: in the export the party name of a voucher (PARTYLEDGERNAME and the
\* first leg's LEDGERNAME) is "Unknown Ledger" when no ledger has its
\* ledgerId, and the name of the ledger found otherwise; the voucher's block
\* is emitted either way.
C4_PartyNameResolved ==
    Exported =>
        /\ BlockPerVoucher
        /\ \A n \in DOMAIN vouchers :
              /\ Field(Block(xml, n), "PARTYLEDGERNAME").val = ExpectedPartyName(ledgers, vouchers[n])
              /\ NumLegs(Block(xml, n)) >= 1
              /\ Field(PartyLeg(n), "LEDGERNAME").val = ExpectedPartyName(ledgers, vouchers[n])

C4_Witness ==
    /\ Exported
    /\ \E n \in DOMAIN vouchers : Matching(ledgers, vouchers[n].ledgerId) = {}
    /\ \E n \in DOMAIN vouchers : Matching(ledgers, vouchers[n].ledgerId) # {}

\* C5 (as claimed): the dashboard's recent vouchers and the day book show
\* "Unknown Ledger" for a voucher whose ledgerId matches no ledger.
C5_ViewsShowUnknownLedger ==
    \A i \in DOMAIN vouchers :
        Matching(ledgers, vouchers[i].ledgerId) = {} =>
            /\ \A r \in DOMAIN RecentVouchers(vouchers) :
                  RecentVouchers(vouchers)[r] = vouchers[i]
                      => DashboardParty(ledgers, vouchers[i]) = "Unknown Ledger"
            /\ \A r \in DOMAIN DayBook(vouchers, vouchers[i].date) :
                  DayBook(vouchers, vouchers[i].date)[r] = vouchers[i]
                      => DayBookParty(ledgers, vouchers[i]) = "Unknown Ledger"

\* C6: the two legs of every exported voucher, whatever its type, have equal
\* absolute amounts that sum to zero, and one flag "Yes" and the other "No".
C6_LegsNetZero ==
    Exported =>
        \A n \in 1..NumBlocks(xml) :
            /\ NumLegs(Block(xml, n)) = 2
            /\ Abs(Field(PartyLeg(n), "AMOUNT").num) = Abs(Field(ContraLeg(n), "AMOUNT").num)
            /\ Field(PartyLeg(n), "AMOUNT").num + Field(ContraLeg(n), "AMOUNT").num = 0
            /\ { Field(PartyLeg(n), "ISDEEMEDPOSITIVE").val,
                 Field(ContraLeg(n), "ISDEEMEDPOSITIVE").val } = {"Yes", "No"}

C6_Witness ==
    /\ Exported
    /\ NumBlocks(xml) = 2
    /\ \E i \in DOMAIN vouchers : vouchers[i].type = "Contra"
    /\ \E i \in DOMAIN vouchers : vouchers[i].type = "Payment"

C8_LegAmounts ==
    Exported =>
        /\ BlockPerVoucher
        /\ \A n \in DOMAIN vouchers :
              /\ Field(PartyLeg(n), "AMOUNT").num
                    = IF vouchers[n].type \in {"Sales", "Payment"}
                      THEN vouchers[n].amount ELSE 0 - vouchers[n].amount
              /\ Field(ContraLeg(n), "AMOUNT").num = 0 - Field(PartyLeg(n), "AMOUNT").num

C8_Witness ==
    /\ Exported
    /\ \E i \in DOMAIN vouchers : vouchers[i].type = "Payment"
    /\ \E i \in DOMAIN vouchers : vouchers[i].type = "Journal"

\* C9: the contra leg's ledger name is "Sales Account" for Sales, "Purchase
\* Account" for Purchase and "Cash Account" for the other types, whatever the
\* registry holds.
C9_ContraLedgerName ==
    Exported =>
        /\ BlockPerVoucher
        /\ \A n \in DOMAIN vouchers :
              Field(ContraLeg(n), "LEDGERNAME").val
                  = CASE vouchers[n].type = "Sales" -> "Sales Account"
                      [] vouchers[n].type = "Purchase" -> "Purchase Account"
                      [] OTHER -> "Cash Account"

C9_Witness ==
    /\ Exported
    /\ ledgers = <<>>
    /\ \E i \in DOMAIN vouchers : vouchers[i].type = "Purchase"
    /\ \E i \in DOMAIN vouchers : vouchers[i].type = "Receipt"

\* C10: the export holds one voucher block per voucher of the journal, in
\* journal order, each with exactly two ledger-entry blocks; this for the
\* empty journal and for journals with dangling ledgerIds too.
C10_ExportTotal ==
    Exported =>
        /\ BlockPerVoucher
        /\ \A n \in DOMAIN vouchers :
              /\ Block(xml, n)[1].val = vouchers[n].type
              /\ Field(Block(xml, n), "NARRATION").val = vouchers[n].narration
              /\ Field(Block(xml, n), "VOUCHERNUMBER").val
                    \in {vouchers[n].invoiceNumber, vouchers[n].id}
              /\ Abs(Field(PartyLeg(n), "AMOUNT").num) = Abs(vouchers[n].amount)
              /\ NumLegs(Block(xml, n)) = 2
              /\ Len(Positions(Block(xml, n), "close", "ALLLEDGERENTRIES.LIST")) = 2

C10_Witness ==
    /\ Exported
    /\ Len(vouchers) = 2
    /\ vouchers[1] # vouchers[2]
    /\ Matching(ledgers, vouchers[1].ledgerId) = {}

----------------------------------------------------------------------------
(* Reading a report back *)

\* ReportView has just rendered and `report` is what it shows
Rendered == lastOp = "ReportView"

\* the sum of the amounts of the vouchers of the given types, of ledger id
\* when forId holds and of every ledger otherwise
RECURSIVE TotalOf(_, _, _, _)
TotalOf(vs, types, forId, id) ==
    IF Len(vs) = 0 THEN 0
    ELSE TotalOf(SubSeq(vs, 1, Len(vs) - 1), types, forId, id)
         + (IF vs[Len(vs)].type \in types /\ (forId => vs[Len(vs)].ledgerId = id)
            THEN vs[Len(vs)].amount ELSE 0)

\* the net the claims give ledger i
ExpectedNet(i) ==
    ledgers[i].openingBalance
    + TotalOf(vouchers, {"Sales", "Receipt"}, TRUE, ledgers[i].id)
    - TotalOf(vouchers, {"Purchase", "Payment"}, TRUE, ledgers[i].id)

\* ledger i has a row, with the amount on the debit side
ShownDebit(i, n) ==
    /\ Len(report.trial[i]) = 1
    /\ report.trial[i][1].debit = Currency(n)
    /\ report.trial[i][1].credit = Dash

\* ledger i has a row, with the amount on the credit side
ShownCredit(i, n) ==
    /\ Len(report.trial[i]) = 1
    /\ report.trial[i][1].credit = Currency(n)
    /\ report.trial[i][1].debit = Dash

\* ledger i has no row
Omitted(i) == report.trial[i] = <<>>

\* the signed amount the trial balance shows for ledger i
ShownNet(i) ==
    IF Omitted(i) THEN 0
    ELSE report.trial[i][1].debit.num - report.trial[i][1].credit.num

Unreferenced(i) == \A k \in DOMAIN vouchers : vouchers[k].ledgerId # ledgers[i].id

C12_ZeroNetOmitted ==
    Rendered =>
        /\ Len(report.trial) = Len(ledgers)
        /\ \A i \in DOMAIN ledgers :
              IF ExpectedNet(i) = 0 THEN Omitted(i)
              ELSE /\ Len(report.trial[i]) = 1
                   /\ report.trial[i][1].key = ledgers[i].id
                   /\ report.trial[i][1].name = ledgers[i].name
                   /\ report.trial[i][1].group = ledgers[i].group

C12_Witness ==
    /\ Rendered
    /\ \E i \in DOMAIN ledgers :
          ~Unreferenced(i) /\ ledgers[i].openingBalance # 0 /\ Omitted(i)
    /\ \E i \in DOMAIN ledgers : ~Omitted(i)

\* C13: a ledger's net is openingBalance + its Sales and Receipt amounts -
\* its Purchase and Payment amounts; Journal and Contra vouchers and the
\* vouchers of other ledgers do not change it.
C13_NetFormula ==
    Rendered => \A i \in DOMAIN ledgers : ShownNet(i) = ExpectedNet(i)

C13_Witness ==
    /\ Rendered
    /\ \E i \in DOMAIN ledgers : ledgers[i].id = "5" /\ ledgers[i].openingBalance = 50000
    /\ \E k \in DOMAIN vouchers : vouchers[k].type = "Payment" /\ vouchers[k].ledgerId = "5"
    /\ \E k \in DOMAIN vouchers : vouchers[k].type = "Contra" /\ vouchers[k].ledgerId = "5"

C15_ProfitAndLossAggregates ==
    Rendered =>
        /\ report.pl.revenue = Currency(TotalOf(vouchers, {"Sales"}, FALSE, ""))
        /\ report.pl.cost = Currency(TotalOf(vouchers, {"Purchase"}, FALSE, ""))
        /\ report.pl.expenses = Currency(TotalOf(vouchers, {"Payment"}, FALSE, ""))

C15_Witness ==
    /\ Rendered
    /\ \E k \in DOMAIN vouchers :
          vouchers[k].type = "Receipt" /\ Matching(ledgers, vouchers[k].ledgerId) = {}
    /\ \E k \in DOMAIN vouchers :
          vouchers[k].type = "Sales" /\ Matching(ledgers, vouchers[k].ledgerId) = {}

\* C16: the net profit shown is the same fixed value for every journal and
\* is not derived from revenue, cost of goods and direct expenses.
C16_NetProfitPlaceholder == Rendered => report.pl.netProfit = Currency(10000)

C16_Witness ==
    /\ Rendered
    /\ vouchers # <<>>
    /\ report.pl.revenue.num - report.pl.cost.num - report.pl.expenses.num # 10000
    /\ report.pl.netProfit.num = 10000

InExample == Rendered /\ ledgers = ExampleRegistry /\ vouchers = ExampleJournal

\* C17 (as claimed): for the example registry and journal the trial balance
\* has ledger "6" with credit 25000 and omits ledger "1" and ledger "3".
C17_ExampleOmitsCash ==
    InExample => ShownCredit(3, 25000) /\ Omitted(1) /\ Omitted(2)

\* C17 (amended): for the example registry and journal the trial balance
\* has ledger "6" with credit 25000 and ledger "1" with debit 50000, and
\* omits ledger "3".
C17_ExampleShowsCash ==
    InExample => ShownCredit(3, 25000) /\ ShownDebit(1, 50000) /\ Omitted(2)

C17_Witness == InExample /\ Len(report.trial) = 3

\* C18: submitting the ledger form with an empty name leaves the registry
\* and the journal as they were.
C18_EmptyNameRejected ==
    [][(/\ lastOp' = "handleSubmit"
        /\ \E group \in LedgerGroupChoices, openingBalance \in OpeningBalances :
              handleSubmit("", group, openingBalance))
           => (ledgers' = ledgers /\ vouchers' = vouchers)]_vars

C18_Witness ==
    /\ lastOp = "handleSubmit"
    /\ nGenerated = 0
    /\ ledgers = savedData.ledgers
    /\ vouchers = savedData.vouchers

\* every voucher of the journal has a ledgerId and one of the voucher types
VouchersComplete ==
    \A i \in DOMAIN vouchers :
        vouchers[i].ledgerId # "" /\ vouchers[i].type \in VoucherType

C20_IdsDistinct ==
    /\ \A i, j \in DOMAIN ledgers : ledgers[i].id = ledgers[j].id => i = j
    /\ \A i, j \in DOMAIN vouchers : vouchers[i].id = vouchers[j].id => i = j

\* ledgers i and j are two accounts of one name
Namesakes(i, j) ==
    /\ i # j
    /\ ledgers[i].name = ledgers[j].name
    /\ ledgers[i].id # ledgers[j].id

\* C21: adding a ledger whose name an existing ledger has succeeds, and the
\* two are distinct accounts: each has its own trial-balance row, and a
\* voucher on one of them changes the balance of that one only.
C21_DuplicateNamesDistinct ==
    /\ [](Rendered =>
            \A i, j \in DOMAIN ledgers :
                Namesakes(i, j) =>
                    /\ ShownNet(i) = ExpectedNet(i)
                    /\ ~Omitted(i) => report.trial[i][1].key = ledgers[i].id)
    /\ [][(/\ lastOp' = "handleSubmit"
            /\ \E name \in LedgerNames, group \in LedgerGroupChoices,
                  openingBalance \in OpeningBalances :
                  /\ Truthy(name)
                  /\ \E i \in DOMAIN ledgers : ledgers[i].name = name
                  /\ handleSubmit(name, group, openingBalance))
               => /\ Len(ledgers') = Len(ledgers) + 1
                  /\ SubSeq(ledgers', 1, Len(ledgers)) = ledgers
                  /\ \E i \in DOMAIN ledgers :
                        ledgers[i].name = ledgers'[Len(ledgers')].name]_vars

C21_Witness ==
    /\ Rendered
    /\ \E i, j \in DOMAIN ledgers :
          /\ Namesakes(i, j)
          /\ ~Unreferenced(i)
          /\ Unreferenced(j)
          /\ ~Omitted(i)
          /\ ~Omitted(j)
          /\ ShownNet(i) # ShownNet(j)

\* C22: deleteLedger(id) and deleteVoucher(id) with an id the store does not
\* hold leave the registry and the journal with the same entries in the same
\* order, and deleting an id again after deleting it changes nothing.
C22_DeleteAbsentIsNoOp ==
    [][/\ \A id \in DeleteLedgerIds :
             DeleteLedger(id) =>
                 /\ Matching(ledgers, id) = {} => (ledgers' = ledgers /\ vouchers' = vouchers)
                 /\ deleteLedger(ledgers', id) = ledgers'
       /\ \A id \in DeleteVoucherIds :
             DeleteVoucher(id) =>
                 /\ Matching(vouchers, id) = {} => (vouchers' = vouchers /\ ledgers' = ledgers)
                 /\ deleteVoucher(vouchers', id) = vouchers']_vars

\* a delete has run on a registry that still has its full length: the id
\* was not held
C22_Witness ==
    /\ lastOp = "deleteLedger"
    /\ Len(ledgers) = MaxRegistry
    /\ Matching(ledgers, "7") = {}

\* the entries of sub are entries of s, in the order s has them
InOrder(sub, s) ==
    \E f \in [DOMAIN sub -> DOMAIN s] :
        /\ \A i \in DOMAIN sub : sub[i] = s[f[i]]
        /\ \A i, j \in DOMAIN sub : i < j => f[i] < f[j]

\* the vouchers of the date, taken from the journal one by one in its order
RECURSIVE VouchersOfDate(_, _)
VouchersOfDate(vs, date) ==
    IF Len(vs) = 0 THEN <<>>
    ELSE VouchersOfDate(SubSeq(vs, 1, Len(vs) - 1), date)
         \o (IF vs[Len(vs)].date = date THEN <<vs[Len(vs)]>> ELSE <<>>)

\* the dates the day book is opened for: today and the date of any voucher
DayBookDates == {Today} \cup {vouchers[i].date : i \in DOMAIN vouchers}

\* C23: the journal is insertion-ordered: the voucher form places the new
\* voucher after all existing ones, deleteVoucher keeps the remaining
\* vouchers in their order, and the day book of a date is exactly the
\* vouchers of that date in journal order.
C23_JournalInsertionOrdered ==
    /\ [](\A date \in DayBookDates :
             DayBook(vouchers, date) = VouchersOfDate(vouchers, date))
    /\ [][/\ (lastOp' = "handleSave" /\ vouchers' # vouchers)
              => (/\ Len(vouchers') = Len(vouchers) + 1
                  /\ SubSeq(vouchers', 1, Len(vouchers)) = vouchers)
          /\ (lastOp' = "deleteVoucher")
              => (/\ InOrder(vouchers', vouchers)
                  /\ Len(vouchers') < Len(vouchers))]_vars

C23_Witness ==
    /\ lastOp = "deleteVoucher"
    /\ Len(vouchers) = 2
    /\ Len(DayBook(vouchers, Today)) = 2
    /\ vouchers[1] = savedData.vouchers[2]
    /\ vouchers[2].id \in IdPool

\* C24: computing the trial balance, the profit and loss summary, the
\* dashboard totals and the export leaves the registry and the journal as
\* they were.
C24_ViewsLeaveStores ==
    [][lastOp' \in {"ReportView", "DashboardView", "exportToTally"}
          => (ledgers' = ledgers /\ vouchers' = vouchers)]_vars

\* DashboardView has just rendered and `dashboard` is what it shows
DashboardShown == lastOp = "DashboardView"

C24_Witness ==
    /\ DashboardShown
    /\ Len(vouchers) = 2
    /\ vouchers[1] # vouchers[2]
    /\ ledgers # <<>>

\* the ledgers of the registry whose group is Cash
CashLedgers == {i \in DOMAIN ledgers : ledgers[i].group = "Cash"}

\* C29: the dashboard's cash in hand is the opening balance of the first
\* Cash ledger in registry order (0 when there is none) + all Receipt
\* amounts - all Payment amounts of the journal, whatever ledger each
\* voucher is on.
C29_CashInHand ==
    DashboardShown =>
        dashboard.cashBalance =
            Currency((IF CashLedgers = {} THEN 0
                      ELSE ledgers[First(CashLedgers)].openingBalance)
                     + TotalOf(vouchers, {"Receipt"}, FALSE, "")
                     - TotalOf(vouchers, {"Payment"}, FALSE, ""))

C29_Witness ==
    /\ DashboardShown
    /\ Cardinality(CashLedgers) = 2
    /\ ledgers[1].openingBalance # ledgers[2].openingBalance
    /\ \E k \in DOMAIN vouchers :
          vouchers[k].type = "Receipt" /\ Matching(ledgers, vouchers[k].ledgerId) = {}
    /\ \E k \in DOMAIN vouchers : vouchers[k].type = "Payment"

\* C25: in the export a voucher's reference number is its invoiceNumber
\* when it has one, and its id when the invoiceNumber is absent or is the
\* empty text the voucher form stores for a blank reference field.
C25_ReferenceNumber ==
    Exported =>
        /\ BlockPerVoucher
        /\ \A n \in DOMAIN vouchers :
              Field(Block(xml, n), "VOUCHERNUMBER").val
                  = IF vouchers[n].invoiceNumber \in {undefined, ""}
                    THEN vouchers[n].id ELSE vouchers[n].invoiceNumber

C25_Witness ==
    /\ Exported
    /\ \E n \in DOMAIN vouchers :
          vouchers[n].id \in IdPool /\ vouchers[n].invoiceNumber = ""
    /\ \E n \in DOMAIN vouchers : vouchers[n].invoiceNumber = undefined
    /\ \E n \in DOMAIN vouchers : vouchers[n].invoiceNumber = "NAC-001"

Dangling(ls, v) == Matching(ls, v.ledgerId) = {}

C30_LicenseGate ==
    /\ [][/\ (lastOp' \in {"loadEffect", "saveEffect", "render", "logout"} /\ now' = now)
              => (storedLicense # <<>> /\ isUnlocked = TRUE)
          /\ (lastOp' = "handleActivate" /\ ~(Len(licenseKey') >= 2 /\ licenseKey'[1] = "NAC"))
              => (/\ storedLicense' = <<>>
                  /\ isUnlocked' = FALSE
                  /\ nac_license' = nac_license
                  /\ nac_license' = <<>>)
          /\ (lastOp' = "gateEffect" /\ gateEffect /\ nac_license # <<>> /\ nac_license[1].expiryDate <= now)
              => (/\ nac_license' = <<>>
                  /\ storedLicense' = <<>>
                  /\ isUnlocked' = FALSE)
          /\ (lastOp' = "logout")
              => (/\ nac_license' = <<>>
                  /\ storedLicense' = <<>>
                  /\ isUnlocked' = FALSE
                  /\ gateEffect' = TRUE)
          /\ (lastOp' = "gateEffect" /\ gateEffect /\ nac_license = <<>>)
              => (storedLicense' = <<>> /\ isUnlocked' = FALSE)]_vars
    /\ []((effects # MountEffects) => (storedLicense # <<>> /\ isUnlocked = TRUE))

\* a program that has run before was started again and the mount effect of
\* the gate left it locked, after logout or after the license ran out
C30_Witness ==
    /\ lastOp = "gateEffect"
    /\ nac_data # <<>>
    /\ nac_license = <<>>
    /\ storedLicense = <<>>
    /\ isUnlocked = FALSE
    /\ now >= MonthTrial

====
